---- MODULE Spec2Model ----
(***************************************************************************)
(* Model of the combination worker of src/app/game/[id]/lobby.tsx:         *)
(* canonicalName and the missing-pair loop (pure functions), pollResult    *)
(* (a bounded polling loop), and the POST route handler running as several *)
(* overlapping invocations against the shared record store.                *)
(*                                                                         *)
(* Three specifications share the variables:                               *)
(*   SpecPairs  canonicalName / missing pairs applied to bounded inputs    *)
(*   SpecPoll   pollResult, one status request per step                    *)
(*   Spec       the worker invocations, the store and the generation API   *)
(***************************************************************************)
EXTENDS Integers, Sequences, FiniteSets, TLC

VARIABLES
    pin,        \* SpecPairs: the input of the pure function under test
    pout,       \* SpecPairs: its output
    poll,       \* SpecPoll: the state of one pollResult call
    people,     \* store: the rows of table `people`, in insertion order
    generated,  \* store: the rows of table `generated`
    jobs,       \* generation API: predictionId -> the two images submitted
    worker,     \* one record per invocation of POST/GET
    faults      \* SpecLive: the failures the environment can still produce

vars == <<pin, pout, poll, people, generated, jobs, worker, faults>>

\* the null a failed call returns in place of a URL or an id
NullUrl == <<>>

(***************************************************************************)
(* Bounds                                                                  *)
(***************************************************************************)
MaxList == 3        \* SpecPairs: longest people list
MaxAttempts == 3    \* SpecPoll: largest maxAttempts argument
MaxPeople == 3      \* Spec: rows of table `people`
MaxInv == 2         \* Spec: invocations of the worker
MaxDistinct == 4    \* SpecPairs: longest list of pairwise distinct names
\* Spec: stands for the default maxAttempts = 30 of pollResult
DefaultMaxAttempts == 2

\* pairs of MaxPeople people
MaxPairs == (MaxPeople * (MaxPeople - 1)) \div 2

(***************************************************************************)
(* Strings.  A name is a sequence of characters.  "E'" stands for the      *)
(* precomposed letter U+00E9 and "'" for the combining accent U+0301, so   *)
(* that <<"E'">> and <<"e", "'">> are canonically equivalent strings.      *)
(***************************************************************************)
Chars == {" ", "'", "a", "b", "e", "E'", "x"}

CharRank(c) ==
    CASE c = " "  -> 0
      [] c = "'"  -> 1
      [] c = "a"  -> 2
      [] c = "b"  -> 3
      [] c = "e"  -> 4
      [] c = "x"  -> 5
      [] OTHER    -> 6

\* canonical decomposition: the collation key of a string
RECURSIVE Decompose(_)
Decompose(s) ==
    IF s = <<>> THEN <<>>
    ELSE (IF Head(s) = "E'" THEN <<"e", "'">> ELSE <<Head(s)>>) \o Decompose(Tail(s))

RECURSIVE CompareKeys(_, _)
CompareKeys(s, t) ==
    IF s = <<>> /\ t = <<>> THEN 0
    ELSE IF s = <<>> THEN -1
    ELSE IF t = <<>> THEN 1
    ELSE IF CharRank(Head(s)) < CharRank(Head(t)) THEN -1
    ELSE IF CharRank(Head(s)) > CharRank(Head(t)) THEN 1
    ELSE CompareKeys(Tail(s), Tail(t))

\* String.prototype.localeCompare: negative, zero or positive; zero for
\* canonically equivalent strings
localeCompare(a, b) == CompareKeys(Decompose(a), Decompose(b))

Sep == <<" ", "x", " ">>

canonicalName(nameA, nameB) ==
    IF localeCompare(nameA, nameB) <= 0
    THEN nameA \o Sep \o nameB
    ELSE nameB \o Sep \o nameA

(***************************************************************************)
(* The missing-pair loop of POST (step 3).                                 *)
(***************************************************************************)
InnerStart_Same(i) == i

\* first index of the inner loop: j = i + 1
InnerStart(i) == i + 1

IsMissing_Always(name, existingNames) == TRUE

\* if (!existingNames.has(name))
IsMissing(name, existingNames) == name \notin existingNames

\* the loops run over 0-based i, j in the code; positions are 1-based here
RECURSIVE PairLoop(_, _, _, _)
PairLoop(ppl, existingNames, i, j) ==
    IF i > Len(ppl) THEN <<>>
    ELSE IF j > Len(ppl) THEN PairLoop(ppl, existingNames, i + 1, InnerStart(i + 1))
    ELSE LET name == canonicalName(ppl[i].name, ppl[j].name)
             rest == PairLoop(ppl, existingNames, i, j + 1)
         IN  IF IsMissing(name, existingNames)
             THEN <<  <<ppl[i], ppl[j]>>  >> \o rest
             ELSE rest

missingPairs(ppl, existingNames) == PairLoop(ppl, existingNames, 1, InnerStart(1))

(***************************************************************************)
(* pollResult: one iteration of the loop per status request.               *)
(***************************************************************************)
U1 == <<"out", 1>>
U2 == <<"out", 2>>

\* what the status endpoint can answer to one request: a non-OK HTTP status,
\* a request that throws, or a body with data.status and data.outputs
\* ("none": the body carries no data.status)
Answers(outputLists) ==
    {[kind |-> "notok", status |-> "none", outputs |-> <<>>],
     [kind |-> "throw", status |-> "none", outputs |-> <<>>]}
    \cup {[kind |-> "ok", status |-> s, outputs |-> <<>>] :
              s \in {"queued", "processing", "failed", "none"}}
    \cup {[kind |-> "ok", status |-> "completed", outputs |-> o] : o \in outputLists}

LoopContinues_OffByOne(attempt, maxAttempts) == attempt <= maxAttempts

\* the loop condition: attempt < maxAttempts
LoopContinues(attempt, maxAttempts) == attempt < maxAttempts

Continue == [returns |-> FALSE, value |-> NullUrl]
Return(v) == [returns |-> TRUE, value |-> v]

IterationOutcome_AbortOnError(resp) ==
    IF resp.kind = "notok" \/ resp.kind = "throw" THEN Return(NullUrl)
    ELSE IF resp.status = "completed"
    THEN Return(IF Len(resp.outputs) > 0 THEN resp.outputs[1] ELSE NullUrl)
    ELSE IF resp.status = "failed" THEN Return(NullUrl)
    ELSE Continue

\* the body of the loop after the sleep, for the answer resp
IterationOutcome(resp) ==
    IF resp.kind = "notok" THEN Continue                      \* if (!res.ok) continue
    ELSE IF resp.kind = "throw" THEN Continue                 \* catch: log, next attempt
    ELSE IF resp.status = "completed"
    THEN Return(IF Len(resp.outputs) > 0 THEN resp.outputs[1] ELSE NullUrl)
    ELSE IF resp.status = "failed" THEN Return(NullUrl)
    ELSE Continue                                             \* queued / processing

\* pollResult as a function of the answers the endpoint gives to the
\* successive requests
RECURSIVE PollFrom(_, _, _)
PollFrom(responses, maxAttempts, attempt) ==
    IF ~LoopContinues(attempt, maxAttempts) THEN NullUrl
    ELSE LET out == IterationOutcome(responses[attempt + 1])
         IN  IF out.returns THEN out.value
             ELSE PollFrom(responses, maxAttempts, attempt + 1)

pollResult(responses, maxAttempts) == PollFrom(responses, maxAttempts, 0)

PollAttempt ==
    /\ poll.pc = "loop"
    /\ LoopContinues(poll.attempt, poll.maxAttempts)
    /\ LET resp == poll.responses[poll.requests + 1]
           out  == IterationOutcome(resp)
       IN  poll' = IF out.returns
                   THEN [poll EXCEPT !.requests = @ + 1, !.pc = "returned",
                                     !.result = out.value]
                   ELSE [poll EXCEPT !.requests = @ + 1, !.attempt = @ + 1]
    /\ UNCHANGED <<faults, pin, pout, people, generated, jobs, worker>>

PollTimeout ==
    /\ poll.pc = "loop"
    /\ ~LoopContinues(poll.attempt, poll.maxAttempts)
    /\ poll' = [poll EXCEPT !.pc = "returned", !.result = NullUrl]
    /\ UNCHANGED <<faults, pin, pout, people, generated, jobs, worker>>

PollIdle == [maxAttempts |-> 0, responses |-> <<>>, attempt |-> 0, requests |-> 0,
             pc |-> "idle", result |-> NullUrl]

\* a call of pollResult with budget m about to enter the loop; rs are the
\* answers the status endpoint gives to the successive requests
PollCall(m, rs) ==
    [maxAttempts |-> m, responses |-> rs, attempt |-> 0, requests |-> 0,
     pc |-> "loop", result |-> NullUrl]

(***************************************************************************)
(* The pure functions applied to bounded inputs.                           *)
(***************************************************************************)
PureNames == {<<"a">>, <<"b">>, <<"E'">>, <<"e", "'">>,
              <<"a", " ", "x", " ", "b">>, <<"b", " ", "x", " ", "b">>}

Photo(id) == <<"photo", id>>

PeopleOf(names) ==
    [k \in 1..Len(names) |-> [id |-> k, name |-> names[k], image |-> Photo(k)]]

ForeignLabel == <<"b">> \o Sep \o <<"a">>

\* done-sets of at most two labels: the labels of the list's pairs, the
\* first pair's names joined the other way round, and one label of no pair
DoneSets(names) ==
    LET n == Len(names)
        cand == {canonicalName(names[ij[1]], names[ij[2]]) :
                    ij \in {p \in (1..n) \X (1..n) : p[1] < p[2]}}
                \cup (IF n >= 2 THEN {names[2] \o Sep \o names[1],
                                      names[1] \o Sep \o names[2]} ELSE {})
                \cup {ForeignLabel}
    IN  {{}} \cup {{x, y} : x \in cand, y \in cand}

PureIdle == [op |-> "none"]

ApplyCanonicalName ==
    /\ pin.op = "canonicalName"
    /\ pout.op = "none"
    /\ pout' = [op |-> "canonicalName",
                ab |-> canonicalName(pin.a, pin.b),
                ba |-> canonicalName(pin.b, pin.a)]
    /\ UNCHANGED <<faults, pin, poll, people, generated, jobs, worker>>

ApplyMissingPairs ==
    /\ pin.op = "missingPairs"
    /\ pout.op = "none"
    /\ pout' = [op |-> "missingPairs", pairs |-> missingPairs(pin.people, pin.done)]
    /\ UNCHANGED <<faults, pin, poll, people, generated, jobs, worker>>

\* one run saved the record of the pair pin.saved, and the next run computes
\* the missing pairs from the ledger that holds this one label
ApplySavedPair ==
    /\ pin.op = "savedPair"
    /\ pout.op = "none"
    /\ LET label == canonicalName(pin.people[pin.saved[1]].name,
                                  pin.people[pin.saved[2]].name)
       IN  pout' = [op |-> "savedPair", label |-> label,
                    pairs |-> missingPairs(pin.people, {label})]
    /\ UNCHANGED <<faults, pin, poll, people, generated, jobs, worker>>

(***************************************************************************)
(* The store, the generation API and the worker invocations.               *)
(***************************************************************************)
Invocations == 1..MaxInv

\* the nicknames players register with (trimmed, non-empty), in the order in
\* which they join
NamePool == << <<"a">>, <<"E'">>, <<"e", "'">>, <<"b">> >>

NoResponse == [status |-> 0, kind |-> "none", total |-> 0, submitted |-> 0,
               succeeded |-> 0, failed |-> 0]

ErrorResponse(kind) == [NoResponse EXCEPT !.status = 500, !.kind = kind]

MessageResponse(kind) == [NoResponse EXCEPT !.status = 200, !.kind = kind]

FullEnv == [apiKey |-> TRUE, supabaseUrl |-> TRUE, serviceRoleKey |-> TRUE]

\* the local variables of one invocation.  `tasks` holds, per missing pair,
\* the entry of `submitted` and the state of its poll/persist task; the
\* order of the `submitted` array (the order in which the submissions
\* settle) is not kept, the code only takes its length.
IdleWorker ==
    [pc |-> "idle", env |-> FullEnv,
     peopleErr |-> FALSE, genErr |-> FALSE,
     people |-> <<>>, existingNames |-> {}, missingPairs |-> <<>>,
     tasks |-> <<>>,
     response |-> NoResponse,
     startedAfter |-> {}, peopleAtStart |-> 0]

StoreInit ==
    /\ people = <<>>
    /\ generated = {}
    /\ jobs = {}
    /\ worker = [i \in Invocations |-> IdleWorker]
    /\ faults = "any"

HasName(rows, name) == \E r \in rows : r.name = name

StoreInsert_NoConstraint(rows, rec) == [rows |-> rows \cup {rec}, code |-> "none"]

\* single-record insert of the store: the table is uniquely keyed by name,
\* a second row of the same name is refused with code 23505
StoreInsert(rows, rec) ==
    IF HasName(rows, rec.name)
    THEN [rows |-> rows, code |-> "23505"]
    ELSE [rows |-> rows \cup {rec}, code |-> "none"]

\* Register.onFormSubmit: save the player to table `people`; a name already
\* registered is refused by the store and the refusal ignored
Register ==
    /\ Len(people) < MaxPeople
    /\ Len(people) < Len(NamePool)
    /\ LET id == Len(people) + 1
           r  == StoreInsert({people[k] : k \in 1..Len(people)},
                             [id |-> id, name |-> NamePool[id], image |-> Photo(id)])
       IN  /\ r.code = "none"
           /\ people' = Append(people, [id |-> id, name |-> NamePool[id],
                                        image |-> Photo(id)])
    /\ UNCHANGED <<faults, pin, pout, poll, generated, jobs, worker>>

MissingApiKey_Never(env) == FALSE

\* if (!apiKey)
MissingApiKey(env) == ~env.apiKey

MissingSupabase_Both(env) == ~env.supabaseUrl /\ ~env.serviceRoleKey

MissingSupabase(env) == ~env.supabaseUrl \/ ~env.serviceRoleKey

\* POST, up to the creation of the store client
Start(i, env) ==
    /\ worker[i].pc = "idle"
    /\ \A j \in Invocations : j < i => worker[j].pc # "idle"
    /\ LET w == [worker[i] EXCEPT
                   !.env = env,
                   !.startedAfter = {j \in Invocations : worker[j].pc = "done"},
                   !.peopleAtStart = Len(people)]
       IN  worker' = [worker EXCEPT ![i] =
               IF MissingApiKey(env)
               THEN [w EXCEPT !.pc = "done", !.response = ErrorResponse("error_apikey")]
               ELSE IF MissingSupabase(env)
               THEN [w EXCEPT !.pc = "done", !.response = ErrorResponse("error_supabase")]
               ELSE [w EXCEPT !.pc = "readPeople"]]
    /\ UNCHANGED <<faults, pin, pout, poll, people, generated, jobs>>

\* POST step 1: fetch all people (rows come back in insertion order)
ReadPeople(i, err) ==
    /\ worker[i].pc = "readPeople"
    /\ worker' = [worker EXCEPT ![i] =
           IF err
           THEN [@ EXCEPT !.pc = "done", !.peopleErr = TRUE,
                          !.response = ErrorResponse("error_people")]
           ELSE IF Len(people) < 2
           THEN [@ EXCEPT !.pc = "done", !.people = people,
                          !.response = MessageResponse("not_enough")]
           ELSE [@ EXCEPT !.pc = "readGenerated", !.people = people]]
    /\ UNCHANGED <<faults, pin, pout, poll, people, generated, jobs>>

\* `submits` counts the calls of submitJob made for the pair
NewTask == [state |-> "pending", submits |-> 0, predictionId |-> NullUrl,
            canonName |-> <<>>, outputUrl |-> NullUrl, insertErr |-> "notcalled"]

\* POST steps 2 and 3: fetch the generated names, determine the missing pairs
ReadGenerated(i, err) ==
    /\ worker[i].pc = "readGenerated"
    /\ LET existingNames == {r.name : r \in generated}
           missing == missingPairs(worker[i].people, existingNames)
       IN  worker' = [worker EXCEPT ![i] =
               IF err
               THEN [@ EXCEPT !.pc = "done", !.genErr = TRUE,
                              !.response = ErrorResponse("error_generated")]
               ELSE IF Len(missing) = 0
               THEN [@ EXCEPT !.pc = "done", !.existingNames = existingNames,
                              !.response = MessageResponse("all_generated")]
               ELSE [@ EXCEPT !.pc = "submit", !.existingNames = existingNames,
                              !.missingPairs = missing,
                              !.tasks = [k \in 1..Len(missing) |-> NewTask]]]
    /\ UNCHANGED <<faults, pin, pout, poll, people, generated, jobs>>

\* submitJob: the prediction id on success, null on a non-OK status, an
\* unexpected body or an exception
SubmitOutcomes == {"ok", "notok", "badbody", "throw"}

submitJob(outcome, id) == IF outcome = "ok" THEN id ELSE NullUrl

\* the indices of the pairs that are in the `submitted` array
Submitted(w) ==
    {k \in 1..Len(w.tasks) : w.tasks[k].state \notin {"pending", "dropped"}}

Fulfilled(w) == {k \in 1..Len(w.tasks) : w.tasks[k].state = "fulfilled"}

Rejected(w) == {k \in 1..Len(w.tasks) : w.tasks[k].state = "rejected"}

AllSettled_First(w) ==
    Submitted(w) = {} \/ Fulfilled(w) \cup Rejected(w) # {}

\* every promise given to Promise.allSettled has settled
AllSettled(w) == Submitted(w) = Fulfilled(w) \cup Rejected(w)

\* the summary of POST: results.filter(...).length and the JSON body
Summary(w) ==
    [status |-> 200, kind |-> "summary",
     total |-> Len(w.missingPairs),
     submitted |-> Cardinality(Submitted(w)),
     succeeded |-> Cardinality(Fulfilled(w)),
     failed |-> Cardinality(Rejected(w))]

\* the await of Promise.allSettled: once every task has settled, respond
AwaitResults(w) ==
    IF AllSettled(w) THEN [w EXCEPT !.pc = "done", !.response = Summary(w)] ELSE w

SubmitAccepted_Always(predictionId) == TRUE

\* if (predictionId) submitted.push(...)
SubmitAccepted(predictionId) == predictionId # NullUrl

SubmittedEntry_OwnName(task, pair, predictionId) ==
    [task EXCEPT !.state = "submitted", !.predictionId = predictionId,
                 !.canonName = canonicalName(pair[1].name, pair[1].name)]

\* the entry pushed to `submitted`: { pair, predictionId, canonName }
SubmittedEntry(task, pair, predictionId) ==
    [task EXCEPT !.state = "submitted", !.predictionId = predictionId,
                 !.canonName = canonicalName(pair[1].name, pair[2].name)]

SubmitsSettled_Any(tasks) == TRUE

\* the await of Promise.all: every submission of the fan-out has settled
SubmitsSettled(tasks) == \A m \in 1..Len(tasks) : tasks[m].state # "pending"

\* POST step 4: one submission of the fan-out settles; after the last one
\* (Promise.all) the poll tasks of step 5 are started
SubmitJob(i, k, outcome) ==
    /\ worker[i].pc = "submit"
    /\ k \in 1..Len(worker[i].tasks)
    /\ worker[i].tasks[k].state = "pending"
    /\ LET w == worker[i]
           pair == w.missingPairs[k]
           predictionId == submitJob(outcome, <<i, k>>)
           t == [w.tasks[k] EXCEPT !.submits = @ + 1]
           w1 == [w EXCEPT !.tasks[k] =
                     IF SubmitAccepted(predictionId)
                     THEN SubmittedEntry(t, pair, predictionId)
                     ELSE [t EXCEPT !.state = "dropped"]]
       IN  /\ jobs' = IF outcome = "ok"
                      THEN jobs \cup {[id |-> <<i, k>>,
                                       images |-> <<pair[1].image, pair[2].image>>]}
                      ELSE jobs
           /\ worker' = [worker EXCEPT ![i] =
                  IF ~SubmitsSettled(w1.tasks)
                  THEN w1
                  ELSE AwaitResults([w1 EXCEPT
                           !.pc = "poll",
                           !.tasks = [m \in 1..Len(w1.tasks) |->
                                         IF w1.tasks[m].state = "submitted"
                                         THEN [w1.tasks[m] EXCEPT !.state = "polling"]
                                         ELSE w1.tasks[m]]])]
    /\ UNCHANGED <<faults, pin, pout, poll, people, generated>>

\* the first output of a completed prediction
Out(predictionId) == <<"out", predictionId>>

\* what pollResult can return with the default budget, over every sequence
\* of answers of the status endpoint (U1 standing for the job's output)
PollReturns ==
    {pollResult(rs, DefaultMaxAttempts) :
        rs \in [1..DefaultMaxAttempts -> Answers({<<>>, <<U1>>})]}

PollThrows_Never(outputUrl) == FALSE

\* if (!outputUrl) throw
PollThrows(outputUrl) == outputUrl = NullUrl

\* POST step 5, first half of a task: pollResult returns.  pollResult reads
\* and writes nothing the invocations share, so its requests are one step
\* here; SpecPoll runs them one by one.
PollJob(i, k, ret) ==
    /\ worker[i].pc = "poll"
    /\ k \in 1..Len(worker[i].tasks)
    /\ worker[i].tasks[k].state = "polling"
    /\ ret \in PollReturns
    /\ LET outputUrl == IF ret = U1 THEN Out(worker[i].tasks[k].predictionId) ELSE ret
       IN  worker' = [worker EXCEPT ![i] =
               AwaitResults([@ EXCEPT !.tasks[k] =
                   IF PollThrows(outputUrl)
                   THEN [@ EXCEPT !.state = "rejected", !.outputUrl = outputUrl]
                   ELSE [@ EXCEPT !.state = "inserting", !.outputUrl = outputUrl]])]
    /\ UNCHANGED <<faults, pin, pout, poll, people, generated, jobs>>

GeneratedWrite_Upsert(rows, rec) ==
    [rows |-> {r \in rows : r.name # rec.name} \cup {rec}, code |-> "none"]

\* db.from('generated').insert(...)
GeneratedWrite(rows, rec) == StoreInsert(rows, rec)

InsertThrows_AnyError(code) == code # "none"

\* if (insertErr && insertErr.code !== '23505') throw
InsertThrows(code) == code # "none" /\ code # "23505"

\* POST step 5, second half of a task: the insert into `generated`; the
\* request can also fail with another error, which writes nothing
InsertGenerated(i, k, fails) ==
    /\ worker[i].pc = "poll"
    /\ k \in 1..Len(worker[i].tasks)
    /\ worker[i].tasks[k].state = "inserting"
    /\ LET t == worker[i].tasks[k]
           r == IF fails
                THEN [rows |-> generated, code |-> "other"]
                ELSE GeneratedWrite(generated,
                                    [name |-> t.canonName, image |-> t.outputUrl])
       IN  /\ generated' = r.rows
           /\ worker' = [worker EXCEPT ![i] =
                  AwaitResults([@ EXCEPT !.tasks[k] =
                      [t EXCEPT !.insertErr = r.code,
                                !.state = IF InsertThrows(r.code)
                                          THEN "rejected" ELSE "fulfilled"]])]
    /\ UNCHANGED <<faults, pin, pout, poll, people, jobs>>

Init ==
    /\ pin = PureIdle
    /\ pout = PureIdle
    /\ poll = PollIdle
    /\ StoreInit

Next ==
    \/ Register
    \/ \E i \in Invocations, env \in [apiKey : BOOLEAN, supabaseUrl : BOOLEAN,
                                      serviceRoleKey : BOOLEAN] : Start(i, env)
    \/ \E i \in Invocations, err \in BOOLEAN : ReadPeople(i, err)
    \/ \E i \in Invocations, err \in BOOLEAN : ReadGenerated(i, err)
    \/ \E i \in Invocations, k \in 1..MaxPairs, outcome \in SubmitOutcomes :
           SubmitJob(i, k, outcome)
    \/ \E i \in Invocations, k \in 1..MaxPairs, ret \in PollReturns : PollJob(i, k, ret)
    \/ \E i \in Invocations, k \in 1..MaxPairs, fails \in BOOLEAN :
           InsertGenerated(i, k, fails)

Spec == Init /\ [][Next]_vars

(***************************************************************************)
(* Repeated invocations over a fixed people list.  `faults` says what can  *)
(* still go wrong: "any" (every failure), "fatal" (the per-pair failures   *)
(* have stopped: only a missing configuration, a failed store read or a    *)
(* hosting timeout), "none".  Earlier runs have saved the record of every  *)
(* pair but the first one.                                                 *)
(***************************************************************************)
InitLive ==
    /\ pin = PureIdle
    /\ pout = PureIdle
    /\ poll = PollIdle
    /\ \E n \in 2..MaxPeople :
           people = [id \in 1..n |->
                        [id |-> id, name |-> NamePool[id], image |-> Photo(id)]]
    /\ generated = {[name |-> canonicalName(people[ab[1]].name, people[ab[2]].name),
                      image |-> Out(<<0, ab[1], ab[2]>>)] :
                        ab \in {p \in (1..Len(people)) \X (1..Len(people)) :
                                   p[1] < p[2] /\ p # <<1, 2>>}}
    /\ jobs = {}
    /\ worker = [i \in Invocations |-> IdleWorker]
    /\ faults = "any"

\* the failures of one class stop for good
Settle ==
    /\ faults # "none"
    /\ faults' = IF faults = "any" THEN "fatal" ELSE "none"
    /\ UNCHANGED <<pin, pout, poll, people, generated, jobs, worker>>

\* the hosting timeout (maxDuration) ends a running invocation: no response,
\* and none of its remaining steps is taken
Truncate(i) ==
    /\ faults # "none"
    /\ worker[i].pc \notin {"idle", "done"}
    /\ worker' = [worker EXCEPT ![i] = [@ EXCEPT !.pc = "done"]]
    /\ UNCHANGED <<faults, pin, pout, poll, people, generated, jobs>>

\* the next trigger: the handler runs again, with fresh locals
Reinvoke(i) ==
    /\ worker[i].pc = "done"
    /\ worker' = [worker EXCEPT ![i] = IdleWorker]
    /\ UNCHANGED <<faults, pin, pout, poll, people, generated, jobs>>

\* the steps of invocation i that the remaining failures allow
LiveStep(i) ==
    \/ \E env \in {FullEnv, [FullEnv EXCEPT !.apiKey = FALSE]} :
           (env # FullEnv => faults # "none") /\ Start(i, env)
    \/ \E err \in BOOLEAN : (err => faults # "none") /\ ReadPeople(i, err)
    \/ \E err \in BOOLEAN : (err => faults # "none") /\ ReadGenerated(i, err)
    \/ \E k \in 1..MaxPairs, outcome \in SubmitOutcomes :
           (outcome # "ok" => faults = "any") /\ SubmitJob(i, k, outcome)
    \/ \E k \in 1..MaxPairs, ret \in PollReturns :
           (ret = NullUrl => faults = "any") /\ PollJob(i, k, ret)
    \/ \E k \in 1..MaxPairs, fails \in BOOLEAN :
           (fails => faults = "any") /\ InsertGenerated(i, k, fails)
    \/ Reinvoke(i)

NextLive ==
    \/ Settle
    \/ \E i \in Invocations : Truncate(i)
    \/ \E i \in Invocations : LiveStep(i)

\* the trigger keeps firing and every pending call of a handler settles
SpecLive ==
    InitLive /\ [][NextLive]_vars /\ \A i \in Invocations : WF_vars(LiveStep(i))

InitPairs ==
    /\ \/ \E a \in PureNames, b \in PureNames :
              pin = [op |-> "canonicalName", a |-> a, b |-> b]
       \/ \E n \in 0..MaxList : \E ns \in [1..n -> PureNames] :
              \E d \in DoneSets(ns) :
                  pin = [op |-> "missingPairs", people |-> PeopleOf(ns), done |-> d]
       \/ \E n \in 2..MaxDistinct : \E ns \in [1..n -> PureNames] :
              \E a \in 1..n, b \in 1..n :
                  /\ a < b
                  /\ \A k, l \in 1..n : k # l => ns[k] # ns[l]
                  /\ pin = [op |-> "savedPair", people |-> PeopleOf(ns),
                            saved |-> <<a, b>>]
    /\ pout = PureIdle
    /\ poll = PollIdle
    /\ StoreInit

NextPairs == ApplyCanonicalName \/ ApplyMissingPairs \/ ApplySavedPair

SpecPairs == InitPairs /\ [][NextPairs]_vars

InitPoll ==
    /\ pin = PureIdle
    /\ pout = PureIdle
    /\ \E m \in 0..MaxAttempts :
           \E rs \in [1..(m + 1) -> Answers({<<>>, <<U1>>, <<U2, U1>>})] :
               poll = PollCall(m, rs)
    /\ StoreInit

NextPoll == PollAttempt \/ PollTimeout

\* the timer and the request of an iteration always settle
SpecPoll == InitPoll /\ [][NextPoll]_vars /\ WF_vars(NextPoll)

(***************************************************************************)
(* Claims about the pure functions (SpecPairs) and pollResult (SpecPoll).  *)
(***************************************************************************)

\* C5: for a list of n people and a done-set, the missing-pair loop returns
\* exactly n*(n-1)/2 pairs minus the index pairs i<j whose canonical label is
\* in the done-set; no unordered pair of positions appears twice and nobody
\* is paired with themselves.
MissingPairsCount ==
    pout.op = "missingPairs" =>
        LET n == Len(pin.people)
            doneIdx == {ij \in (1..n) \X (1..n) :
                           /\ ij[1] < ij[2]
                           /\ canonicalName(pin.people[ij[1]].name,
                                            pin.people[ij[2]].name) \in pin.done}
            ps == pout.pairs
        IN  /\ Len(ps) = ((n * (n - 1)) \div 2) - Cardinality(doneIdx)
            /\ \A k \in 1..Len(ps) : ps[k][1].id # ps[k][2].id
            /\ \A k, l \in 1..Len(ps) :
                   k # l => {ps[k][1].id, ps[k][2].id} # {ps[l][1].id, ps[l][2].id}

\* a list of three people of which one pair is already done
MissingPairsCountWitness ==
    /\ pout.op = "missingPairs"
    /\ Len(pin.people) = 3
    /\ canonicalName(pin.people[1].name, pin.people[3].name) \in pin.done
    /\ Len(pout.pairs) = 2

\* C6: canonicalName(a,b) = canonicalName(b,a) for all names a, b, equal
\* names and names the comparison ranks as equal included.
CanonicalNameSymmetric ==
    pout.op = "canonicalName" => pout.ab = pout.ba

\* C19: for people with pairwise distinct names, no pair other than the saved
\* one has the saved pair's label, so every other pair is computed as missing
\* from a ledger that holds only that label.
LabelIdentifiesPair ==
    pout.op = "savedPair" =>
        \A c, d \in 1..Len(pin.people) :
            (c < d /\ <<c, d>> # pin.saved) =>
                /\ canonicalName(pin.people[c].name, pin.people[d].name) # pout.label
                /\ \E k \in 1..Len(pout.pairs) :
                       pout.pairs[k] = <<pin.people[c], pin.people[d]>>

Terminal(resp) == resp.kind = "ok" /\ resp.status \in {"completed", "failed"}

\* C7: pollResult terminates: it issues at most maxAttempts status requests
\* and then returns, and with no terminal state observed within maxAttempts
\* attempts it returns null.
PollTerminates ==
    /\ <>(poll.pc = "returned")
    /\ [](poll.requests <= poll.maxAttempts)
    /\ []((/\ poll.pc = "returned"
           /\ \A k \in 1..poll.requests : ~Terminal(poll.responses[k]))
          => poll.requests = poll.maxAttempts /\ poll.result = NullUrl)

\* three attempts, none of them terminal: timed out
PollTerminatesWitness ==
    /\ poll.pc = "returned"
    /\ poll.maxAttempts = 3
    /\ poll.requests = 3
    /\ \A k \in 1..3 : ~Terminal(poll.responses[k])
    /\ poll.result = NullUrl

\* C8: a non-terminal status, a non-OK response or a thrown request error on
\* attempt k never ends polling (the next attempt is made while k <
\* maxAttempts-1); the first `completed` returns the first output URL (null
\* without outputs), the first `failed` returns null, and no request follows
\* a terminal state.
PollRetriesUntilTerminal ==
    LET n == poll.requests
    IN  /\ \A k \in 1..(n - 1) : ~Terminal(poll.responses[k])
        /\ poll.pc = "loop" =>
               /\ \A k \in 1..n : ~Terminal(poll.responses[k])
               /\ poll.attempt = n
               /\ n < poll.maxAttempts => ENABLED PollAttempt
        /\ poll.pc = "returned" =>
               IF n >= 1 /\ Terminal(poll.responses[n])
               THEN LET last == poll.responses[n]
                    IN  poll.result =
                            IF last.status = "completed" /\ Len(last.outputs) > 0
                            THEN last.outputs[1] ELSE NullUrl
               ELSE n = poll.maxAttempts /\ poll.result = NullUrl

\* a non-OK response, then a thrown error, then completed with two outputs
PollRetriesUntilTerminalWitness ==
    /\ poll.pc = "returned"
    /\ poll.requests = 3
    /\ poll.responses[1].kind = "notok"
    /\ poll.responses[2].kind = "throw"
    /\ poll.responses[3].status = "completed"
    /\ poll.responses[3].outputs = <<U2, U1>>
    /\ poll.result = U2

(***************************************************************************)
(* Claims about the worker (Spec).                                         *)
(***************************************************************************)
Tasks(i) == 1..Len(worker[i].tasks)

\* the task has got the return value of pollResult
Polled(t) == t.state \in {"inserting", "fulfilled", "rejected"}

\* C1: under every interleaving of the invocations' reads, submits, polls
\* and inserts, table `generated` never holds two records of the same name.
NoDuplicateGenerated ==
    \A r1, r2 \in generated : r1.name = r2.name => r1 = r2

\* two invocations read the ledger before either inserted, both got an
\* output for the same pair and both made their insert
NoDuplicateGeneratedWitness ==
    \E i, j \in Invocations : \E k \in Tasks(i), l \in Tasks(j) :
        /\ i # j
        /\ worker[i].tasks[k].canonName = worker[j].tasks[l].canonName
        /\ worker[i].tasks[k].canonName \notin worker[i].existingNames
        /\ worker[j].tasks[l].canonName \notin worker[j].existingNames
        /\ worker[i].tasks[k].insertErr = "none"
        /\ worker[j].tasks[l].insertErr = "23505"
        /\ Cardinality({r \in generated : r.name = worker[i].tasks[k].canonName}) = 1

\* C2: an insert refused with code 23505 counts as success: the pair is in
\* `succeeded`, not in `failed`, and the invocation answers 200.
ConflictIsSuccess ==
    \A i \in Invocations :
        LET w == worker[i]
            conflicts == {k \in Tasks(i) : w.tasks[k].insertErr = "23505"}
        IN  /\ \A k \in conflicts : w.tasks[k].state = "fulfilled"
            /\ (w.pc = "done" /\ conflicts # {}) =>
                   /\ w.response.status = 200
                   /\ w.response.kind = "summary"
                   /\ w.response.succeeded >= Cardinality(conflicts)
                   /\ w.response.failed =
                          Cardinality({k \in Tasks(i) :
                              \/ Polled(w.tasks[k]) /\ w.tasks[k].outputUrl = NullUrl
                              \/ w.tasks[k].insertErr = "other"})

\* the only submitted pair of an invocation lost the race
ConflictIsSuccessWitness ==
    \E i \in Invocations :
        /\ worker[i].pc = "done"
        /\ \E k \in Tasks(i) : worker[i].tasks[k].insertErr = "23505"
        /\ worker[i].response.status = 200
        /\ worker[i].response.submitted = 1
        /\ worker[i].response.succeeded = 1
        /\ worker[i].response.failed = 0

\* C3: `generated` is append-only: no step removes a record or changes its
\* image, and a record is only added under a name that had none (a later
\* writer's URL for an existing name is discarded).
GeneratedAppendOnly ==
    [][/\ \A r \in generated : r \in generated'
       /\ \A r \in generated' \ generated : ~HasName(generated, r.name)]_vars

\* a later writer came with another URL for an existing name
GeneratedAppendOnlyWitness ==
    \E i \in Invocations : \E k \in Tasks(i) :
        /\ worker[i].tasks[k].insertErr = "23505"
        /\ \E r \in generated :
               /\ r.name = worker[i].tasks[k].canonName
               /\ r.image # worker[i].tasks[k].outputUrl

\* invocation j started after invocation i had returned
RanAfter(i, j) == i \in worker[j].startedAfter

\* j read the people that were there when i started: nobody was added
NoNewPeople(i, j) ==
    /\ worker[j].pc \notin {"idle", "readPeople"}
    /\ worker[j].response.kind \notin {"error_apikey", "error_supabase", "error_people"}
    /\ Len(worker[j].people) = worker[i].peopleAtStart

\* the records invocation j added to `generated`
Inserts(j) == {k \in Tasks(j) : worker[j].tasks[k].insertErr = "none"}

\* invocation i answered 200 and left no pair of its people without a record
SavedAll(i) ==
    /\ worker[i].pc = "done"
    /\ worker[i].response.status = 200
    /\ \/ worker[i].response.kind \in {"not_enough", "all_generated"}
       \/ /\ worker[i].response.kind = "summary"
          /\ worker[i].response.succeeded = worker[i].response.total

\* C4 as stated: a second run after the first, with no person added in
\* between, inserts zero new records (taken here for first runs that read
\* the store and answered 200 only).
SecondRunInsertsNothing ==
    \A i, j \in Invocations :
        (RanAfter(i, j) /\ NoNewPeople(i, j) /\ worker[i].response.status = 200)
            => Inserts(j) = {}

\* C4 as amended: when the first run answered 200 with every missing pair
\* succeeded (or with nothing to do), a second run after it, with no person
\* added in between, finds no missing pair: it makes no insert and adds zero
\* records.
SecondRunAfterFullSuccessInsertsNothing ==
    \A i, j \in Invocations :
        (RanAfter(i, j) /\ NoNewPeople(i, j) /\ SavedAll(i)) =>
            /\ worker[j].tasks = <<>>
            /\ Inserts(j) = {}
            /\ worker[j].pc = "done" =>
                   worker[j].response.kind \in
                       {"not_enough", "all_generated", "error_generated"}

\* the first run saved its pairs, the second found all combinations generated
SecondRunWitness ==
    \E i, j \in Invocations :
        /\ RanAfter(i, j) /\ NoNewPeople(i, j)
        /\ worker[i].response.kind = "summary"
        /\ worker[i].response.succeeded = worker[i].response.total
        /\ Inserts(i) # {}
        /\ worker[j].pc = "done"
        /\ worker[j].response.kind = "all_generated"

\* task k of invocation i failed: its poll returned null (timeout, `failed`,
\* completed without outputs) or its insert failed with a non-conflict error
TaskFailed(t) == (Polled(t) /\ t.outputUrl = NullUrl) \/ t.insertErr = "other"

\* C9: within one invocation a failed job X leaves the store unchanged for
\* its pair and is counted in `failed`, and every other job Y whose poll
\* gave an output URL still has its record in the store and is counted in
\* `succeeded`.
FailureIsolation ==
    \A i \in Invocations :
        LET w == worker[i]
            X == {k \in Tasks(i) : TaskFailed(w.tasks[k])}
            Y == {k \in Tasks(i) : Polled(w.tasks[k]) /\ ~TaskFailed(w.tasks[k])}
        IN  /\ \A k \in X :
                   /\ w.tasks[k].state = "rejected"
                   /\ \A r \in generated :
                          r.image # NullUrl /\ r.image # Out(w.tasks[k].predictionId)
            /\ w.pc = "done" =>
                   /\ \A k \in Y :
                          /\ w.tasks[k].state = "fulfilled"
                          /\ HasName(generated, w.tasks[k].canonName)
                   /\ X \cup Y = Submitted(w)
                   /\ w.response.kind = "summary" =>
                          /\ w.response.failed = Cardinality(X)
                          /\ w.response.succeeded = Cardinality(Y)

\* in one invocation: a job that timed out, a job whose insert failed, and a
\* job whose record was inserted
FailureIsolationWitness ==
    \E i \in Invocations : \E x1, x2, y \in Tasks(i) :
        /\ worker[i].pc = "done"
        /\ worker[i].tasks[x1].state = "rejected"
        /\ worker[i].tasks[x1].outputUrl = NullUrl
        /\ worker[i].tasks[x2].insertErr = "other"
        /\ worker[i].tasks[y].insertErr = "none"
        /\ [name |-> worker[i].tasks[y].canonName,
            image |-> worker[i].tasks[y].outputUrl] \in generated
        /\ worker[i].response.failed = 2
        /\ worker[i].response.succeeded = 1

\* C10: the worker answers 500 exactly when configuration is missing or a
\* store read fails; whatever the submit, poll and insert failures, it
\* answers 200 with a summary.
StatusCodes ==
    \A i \in Invocations :
        LET w == worker[i]
            fatal == \/ ~w.env.apiKey \/ ~w.env.supabaseUrl \/ ~w.env.serviceRoleKey
                     \/ w.peopleErr \/ w.genErr
        IN  w.pc = "done" =>
                /\ w.response.status = 500 <=> fatal
                /\ w.response.status \in {200, 500}
                /\ w.tasks # <<>> =>
                       w.response.status = 200 /\ w.response.kind = "summary"

\* a run in which one submit failed, one poll failed and one insert failed
StatusCodesWitness ==
    \E i \in Invocations : \E a, b, c \in Tasks(i) :
        /\ worker[i].pc = "done"
        /\ worker[i].tasks[a].state = "dropped"
        /\ Polled(worker[i].tasks[b]) /\ worker[i].tasks[b].outputUrl = NullUrl
        /\ worker[i].tasks[c].insertErr = "other"
        /\ worker[i].response.status = 200
        /\ worker[i].response.succeeded = 0

\* the configuration check of the handler let the invocation through
Configured(w) == ~MissingApiKey(w.env) /\ ~MissingSupabase(w.env)

\* the invocation has read the people list, and the ledger, without an error
HasReadPeople(w) ==
    w.pc \notin {"idle", "readPeople"} /\ Configured(w) /\ ~w.peopleErr

HasReadGenerated(w) ==
    HasReadPeople(w) /\ w.pc # "readGenerated" /\ ~w.genErr /\ Len(w.people) >= 2

\* the label of every pair of the people read is in the ledger as read
LedgerCoversAll(w) ==
    \A a, b \in 1..Len(w.people) :
        a < b => canonicalName(w.people[a].name, w.people[b].name) \in w.existingNames

\* the invocation called neither submitJob, nor pollResult, nor the insert
NoExternalCalls(i) ==
    /\ worker[i].tasks = <<>>
    /\ \A job \in jobs : job.id[1] # i

\* C11: an invocation that read fewer than two people, or read a ledger that
\* holds the label of every pair, is finished with status 200 and has called
\* neither submitJob, nor pollResult, nor the insert; and a pair for which
\* submitJob was called had its label absent from the ledger as read.
NothingToDo ==
    \A i \in Invocations :
        LET w == worker[i]
        IN  /\ (HasReadPeople(w) /\ Len(w.people) < 2) =>
                   w.pc = "done" /\ w.response.status = 200 /\ NoExternalCalls(i)
            /\ (HasReadGenerated(w) /\ LedgerCoversAll(w)) =>
                   w.pc = "done" /\ w.response.status = 200 /\ NoExternalCalls(i)
            /\ \A k \in Tasks(i) :
                   w.tasks[k].submits > 0 =>
                       canonicalName(w.missingPairs[k][1].name,
                                     w.missingPairs[k][2].name) \notin w.existingNames

\* one invocation submitted the jobs of the missing pairs and saved them, and
\* a later one read a ledger that held the label of every pair
NothingToDoWitness ==
    \E i, j \in Invocations :
        /\ \E k \in Tasks(i) : worker[i].tasks[k].submits > 0
        /\ HasReadGenerated(worker[j]) /\ LedgerCoversAll(worker[j])
        /\ worker[j].existingNames # {}
        /\ worker[j].response.kind = "all_generated"

\* C12: an invocation whose API key, store URL or store credential is missing
\* is finished with status 500 and has read nothing from the store, called
\* neither submitJob nor pollResult nor the insert, and the step that answers
\* leaves both tables as they were.
ConfigMissing ==
    /\ [](\A i \in Invocations :
             LET w == worker[i]
             IN  (w.pc # "idle" /\ (~w.env.apiKey \/ ~w.env.supabaseUrl
                                      \/ ~w.env.serviceRoleKey)) =>
                     /\ w.pc = "done" /\ w.response.status = 500
                     /\ w.people = <<>> /\ w.existingNames = {}
                     /\ ~w.peopleErr /\ ~w.genErr
                     /\ NoExternalCalls(i))
    /\ [][\A i \in Invocations :
             (worker[i].pc = "idle" /\ worker'[i].pc = "done") =>
                 people' = people /\ generated' = generated /\ jobs' = jobs]_vars

\* one invocation answered 500 for the API key and another one for the store
\* credential, while the store held people and a record
ConfigMissingWitness ==
    \E i, j \in Invocations :
        /\ ~worker[i].env.apiKey /\ worker[i].response.status = 500
        /\ worker[j].env.apiKey /\ ~worker[j].env.serviceRoleKey
        /\ worker[j].response.status = 500
        /\ Len(people) >= 2

\* submitJob was called for the pair of the task and returned null
SubmitFailed(t) == t.submits > 0 /\ t.predictionId = NullUrl

\* the label of the k-th missing pair of invocation i
Label(i, k) ==
    canonicalName(worker[i].missingPairs[k][1].name, worker[i].missingPairs[k][2].name)

\* every pair is submitted once; a task whose submit failed is dropped, and
\* no later step of the invocation touches it: no resubmit, no poll, no insert
SubmittedOnce ==
    /\ [](\A i \in Invocations : \A k \in Tasks(i) :
             LET t == worker[i].tasks[k]
             IN  /\ t.submits <= 1
                 /\ worker[i].pc \in {"poll", "done"} => t.submits = 1
                 /\ SubmitFailed(t) =>
                        /\ t.state = "dropped"
                        /\ t.outputUrl = NullUrl /\ t.insertErr = "notcalled")
    /\ [][\A i \in Invocations : \A k \in Tasks(i) :
             SubmitFailed(worker[i].tasks[k]) =>
                 worker'[i].tasks[k] = worker[i].tasks[k]]_vars

SubmitBarrier ==
    /\ [](\A i \in Invocations : \A k \in Tasks(i) :
             (worker[i].tasks[k].state = "polling" \/ Polled(worker[i].tasks[k])) =>
                 \A m \in Tasks(i) : worker[i].tasks[m].submits = 1)
    /\ [][\A i \in Invocations : \A k \in Tasks(i) :
             (~Polled(worker[i].tasks[k]) /\ Polled(worker'[i].tasks[k])) =>
                 \A m \in Tasks(i) : worker[i].tasks[m].state # "pending"]_vars

\* of three submits one failed and two were accepted, and a poll has returned
SubmitBarrierWitness ==
    \E i \in Invocations : \E k, m, n \in Tasks(i) :
        /\ k # n
        /\ Polled(worker[i].tasks[k])
        /\ worker[i].tasks[n].state = "polling"
        /\ worker[i].tasks[m].state = "dropped"

SummaryCounts ==
    \A i \in Invocations :
        LET w == worker[i]
            r == w.response
        IN  r.kind = "summary" =>
                /\ r.succeeded + r.failed = r.submitted
                /\ r.submitted <= r.total
                /\ r.total = Len(w.missingPairs)
                /\ r.submitted =
                       Cardinality({k \in Tasks(i) : ~SubmitFailed(w.tasks[k])})
                /\ r.succeeded =
                       Cardinality({k \in Tasks(i) :
                           w.tasks[k].insertErr \in {"none", "23505"}})
                /\ r.failed = Cardinality({k \in Tasks(i) : TaskFailed(w.tasks[k])})
                /\ \A k \in Tasks(i) :
                       w.tasks[k].state \in {"dropped", "fulfilled", "rejected"}

\* a summary of three pairs: one not submitted, one succeeded, one failed
SummaryCountsWitness ==
    \E i \in Invocations :
        /\ worker[i].response.kind = "summary"
        /\ worker[i].response.total = 3
        /\ worker[i].response.submitted = 2
        /\ worker[i].response.succeeded = 1
        /\ worker[i].response.failed = 1

\* C17: every record of `generated` was inserted by a task of an invocation
\* under the label of two people at distinct positions of the list that
\* invocation read, with the output of the job that invocation submitted with
\* the images of those two people.
RecordsMatchPairs ==
    \A r \in generated :
        \E i \in Invocations : \E k \in Tasks(i) :
            LET w == worker[i]
                t == w.tasks[k]
            IN  /\ t.insertErr = "none"
                /\ t.predictionId # NullUrl /\ t.predictionId[1] = i
                /\ r.image = Out(t.predictionId)
                /\ \E a, b \in 1..Len(w.people) :
                       /\ a # b
                       /\ r.name = canonicalName(w.people[a].name, w.people[b].name)
                       /\ [id |-> t.predictionId,
                           images |-> <<w.people[a].image, w.people[b].image>>] \in jobs

\* one invocation saved the records of two pairs
RecordsMatchPairsWitness ==
    \E i \in Invocations : \E k, m \in Inserts(i) :
        /\ k # m
        /\ Cardinality(generated) >= 2

\* the ledger holds the label of every pair of people
Complete ==
    \A a, b \in 1..Len(people) :
        a < b => HasName(generated, canonicalName(people[a].name, people[b].name))

\* a step in which some invocation calls submitJob
SubmitStep ==
    \E i \in Invocations : \E k \in Tasks(i) :
        /\ k <= Len(worker'[i].tasks)
        /\ worker'[i].tasks[k].submits > worker[i].tasks[k].submits

\* C18 as stated: once submits, polls and inserts have stopped failing, the
\* ledger eventually holds the label of every pair, and once it does, no
\* invocation submits a job.
EventuallyComplete ==
    /\ (faults # "any") ~> Complete
    /\ [][Complete => Complete' /\ ~SubmitStep]_vars

\* C18, amended: once nothing fails any more (configuration, store reads and
\* hosting timeout included), the ledger eventually holds the label of every
\* pair and keeps it, and an invocation that reads the ledger from then on
\* finishes without a task.
EventuallyCompleteNoFaults ==
    /\ (faults = "none") ~> Complete
    /\ [][Complete => Complete']_vars
    /\ [][\A i \in Invocations :
             (/\ Complete
              /\ worker[i].pc = "readGenerated"
              /\ worker'[i].pc # "readGenerated") =>
                 worker'[i].pc = "done" /\ worker'[i].tasks = <<>>]_vars
    /\ [](\A i \in Invocations : \A k \in Tasks(i) :
             worker[i].tasks[k].submits > 0 => Label(i, k) \notin worker[i].existingNames)

\* after the failures stopped, the ledger is complete and an invocation that
\* read it answered that everything is generated
EventuallyCompleteWitness ==
    /\ faults = "none"
    /\ Complete
    /\ \E i \in Invocations :
           /\ worker[i].response.kind = "all_generated"
           /\ \E r \in generated : r.image = Out(<<3 - i, 1>>)

====
